---- MODULE Spec2Model ----
(***************************************************************************)
(* Model of the Solana wallet web client: the React component             *)
(* WalletComponent (src/src/components/WalletComponent.jsx), the account  *)
(* session gateway (src/src/lib/wallet.js) and the token operations       *)
(* gateway (src/unnamed/part_001, lib/token.js).                          *)
(*                                                                         *)
(* JavaScript runs one task at a time: an async function runs without     *)
(* interruption up to its next await of a collaborator (the wallet        *)
(* provider or the blockchain client), so every action below is the code  *)
(* between two such awaits.  The collaborators are the environment: each  *)
(* pending call resolves with a value drawn from a small set, or rejects. *)
(* Time advances in whole seconds (Tick).                                 *)
(***************************************************************************)
EXTENDS Integers, Sequences, FiniteSets, TLC

VARIABLES
    walletInfo,          \* useState('Not connected')
    status,              \* useState('Idle')
    mint,                \* useState(null)
    tokenAccount,        \* useState(null)
    provider,            \* useState(null): TRUE once window.solana is held
    publicKey,           \* useState(null)
    solBalance,          \* useState(0), a rational [num, den]
    recipientAddress,    \* useState('')
    transactionHistory,  \* useState([])
    isLoading,           \* useState(false)
    dialogError,         \* useState('')
    wallet,              \* window.solana, the injected wallet provider
    ops,                 \* executeWithLoading / gateway calls awaiting a collaborator
    evReads,             \* handleConnect invocations awaiting connection.getBalance
    timers,              \* pending setTimeout(() => setStatus('Idle'), 3000): seconds left
    statusAge,           \* seconds since status was last set by executeWithLoading
    last                 \* observation of the step just taken

sessionVars == <<walletInfo, mint, tokenAccount, publicKey, solBalance,
                 recipientAddress, transactionHistory>>
execVars == <<status, isLoading, dialogError, timers, statusAge>>
vars == <<walletInfo, status, mint, tokenAccount, provider, publicKey, solBalance,
          recipientAddress, transactionHistory, isLoading, dialogError,
          wallet, ops, evReads, timers, statusAge, last>>

-----------------------------------------------------------------------------
(* Bounds of the model *)

\* calls in flight at once that the model can represent
MaxInFlight == 2
\* handleConnect invocations awaiting their balance read at once
MaxEvReads == 1
\* status-clearing timers pending at once
MaxTimers == 2
\* transactions on the ledger of the account
MaxTx == 6

-----------------------------------------------------------------------------
(* Program constants and sample values *)

Null == "<null>"

LAMPORTS_PER_SOL == 1000000000
TimerDelay == 3
HistoryLimit == 5

AcctA == "7xKXtg2CW87d97TXJSDpbD5jBkheTqA83TZRuJosgAsU"
DestB == "9WzDXwBbmkg8ZTbNMqUxvQRAyrZzDsGYdLVL9zYtAWWM"
BadDest == "not-a-solana-address"
MintM == "So11111111111111111111111111111111111111112"
AtaT == "4k3Dyjzvzp8eMZWUXbBCjEvwSkkk59S5iCNLY3QrkX6R"
AtaD == "5Q544fKrFoe6tsEbD7S8EmxGTJYAKtTVhAW5Q5pge4j1"
SigS == "5VERv8NMvzbJMEkV8xnrLkEaWRtSz9CosKDYjCJjBRnbJLgp8uirBgmQpjKhoR4tjF3ZpRzrFmBV6UjKdiSZkQUW"

Accounts == {AcctA}
Lamports == {1000000, 2000000}
TokenAmounts == {100}
\* what the user types into the recipient field of the page
Recipients == {"", DestB}
\* the destinations a call may be given
Destinations == Recipients \cup {BadDest}
\* how many transactions the ledger of the account may hold
LedgerSizes == {0, 2, MaxTx}

ProviderErr == "User rejected the request."
ClientErr == "failed to send transaction: Network request failed"

-----------------------------------------------------------------------------
(* Numbers: SOL amounts are exact rationals num/den in lowest terms *)

RECURSIVE Gcd(_, _)
Gcd(a, b) == IF b = 0 THEN a ELSE Gcd(b, a % b)

Ratio(n, d) == LET g == Gcd(n, d) IN [num |-> n \div g, den |-> d \div g]

\* balance / 1e9
LamportsToSol(balance) == Ratio(balance, LAMPORTS_PER_SOL)

ZeroSol == Ratio(0, 1)
\* the literal 0.002
MinSol == Ratio(2, 1000)

RatLess(a, b) == a.num * b.den < b.num * a.den

-----------------------------------------------------------------------------
(* Strings *)

\* s.slice(0, n)
SliceHead(s, n) == IF Len(s) <= n THEN s ELSE SubSeq(s, 1, n)
\* s.slice(-n)
SliceTail(s, n) == IF Len(s) <= n THEN s ELSE SubSeq(s, Len(s) - n + 1, Len(s))

\* `${pubKey.toString().slice(0, 6)}...${pubKey.toString().slice(-6)}`
AddressDisplay(pk) == SliceHead(pk, 6) \o "..." \o SliceTail(pk, 6)

\* new PublicKey(value): the values that decode to a 32-byte key
IsPublicKeyInput(v) == v \in {AcctA, DestB, MintM, AtaT, AtaD}
InvalidKeyMsg == "Invalid public key input"
NullDerefMsg(field) == "Cannot read properties of null (reading '" \o field \o "')"

-----------------------------------------------------------------------------
(* Provider objects *)

\* no provider: null / undefined
NoProvider == [present |-> FALSE, isPhantom |-> FALSE, isConnected |-> FALSE,
               publicKey |-> Null, canSign |-> FALSE]

\* window.solana in state w, as the code reads it
ViewOf(w) == [present |-> w.installed, isPhantom |-> w.installed,
              isConnected |-> w.isConnected, publicKey |-> w.publicKey,
              canSign |-> w.installed]

\* a connected provider object that lacks signTransaction
WatchOnly == [present |-> TRUE, isPhantom |-> FALSE, isConnected |-> TRUE,
              publicKey |-> AcctA, canSign |-> FALSE]

\* the provider object a reference denotes when window.solana is in state w
ProviderIn(ref, w) == CASE ref = "wallet" -> ViewOf(w)
                        [] ref = "watchOnly" -> WatchOnly
                        [] OTHER -> NoProvider

\* the provider object a reference denotes at this moment
ProviderAt(ref) == ProviderIn(ref, wallet)

\* the component's provider state as a reference
ProviderRef == IF provider THEN "wallet" ELSE "none"

-----------------------------------------------------------------------------
(* Values passed between the collaborators, the gateways and the handlers *)

NoVal == [pk |-> Null, sol |-> ZeroSol, mint |-> Null, acct |-> Null,
          sig |-> "", amount |-> 0, hist |-> <<>>, text |-> ""]

\* one step of an async gateway function: it throws, returns, or awaits a collaborator
Throw(m) == [t |-> "throw", m |-> m, pc |-> "", val |-> NoVal]
Return(v) == [t |-> "return", m |-> "", pc |-> "", val |-> v]
Await(pc, v) == [t |-> "await", m |-> "", pc |-> pc, val |-> v]

\* the awaited calls that go to the blockchain client (the others go to the provider)
ClientCalls == {"getBalance", "createMint", "createAta", "mintTo", "destAta",
                "transfer", "tokenBalance", "signatures"}

-----------------------------------------------------------------------------
(* lib/wallet.js *)

connectWallet_enter(p) ==
    IF ~p.present \/ ~p.isPhantom
    THEN Throw("Phantom wallet not found. Please install it.")
    ELSE Await("connect", NoVal)

\* connectWallet that converts the balance with 1e6 in place of 1e9
connectWallet_resume_wrongUnit(pc, val, v, p) ==
    IF pc = "connect"
    THEN IF p.publicKey = Null
         THEN Throw(NullDerefMsg("toString"))
         ELSE Await("getBalance", [val EXCEPT !.pk = p.publicKey])
    ELSE Return([val EXCEPT !.sol = Ratio(v.amount, 1000000)])

connectWallet_resume(pc, val, v, p) ==
    IF pc = "connect"
    THEN IF p.publicKey = Null
         THEN Throw(NullDerefMsg("toString"))
         ELSE Await("getBalance", [val EXCEPT !.pk = p.publicKey])
    ELSE Return([val EXCEPT !.sol = LamportsToSol(v.amount)])

connectWallet_catch(m) == "Wallet connection failed: " \o m

disconnectWallet_enter(p) ==
    IF ~p.present THEN Throw(NullDerefMsg("isConnected"))
    ELSE IF p.isConnected THEN Await("disconnect", NoVal)
    ELSE Return([NoVal EXCEPT !.text = "No wallet connected"])

disconnectWallet_resume(pc, val, v, p) ==
    Return([val EXCEPT !.text = "Wallet disconnected"])

disconnectWallet_catch(m) == "Disconnect failed: " \o m

\* getTransactionHistory that passes no options: the client's own limit of 1000 applies
getTransactionHistory_enter_noLimit(pk) ==
    IF pk = Null THEN Throw(NullDerefMsg("_bn"))
    ELSE IF ~IsPublicKeyInput(pk) THEN Throw(InvalidKeyMsg)
    ELSE Await("signatures", [NoVal EXCEPT !.amount = 1000])

\* the awaited call carries its { limit } option in amount
getTransactionHistory_enter(pk) ==
    IF pk = Null THEN Throw(NullDerefMsg("_bn"))
    ELSE IF ~IsPublicKeyInput(pk) THEN Throw(InvalidKeyMsg)
    ELSE Await("signatures", [NoVal EXCEPT !.amount = HistoryLimit])

getTransactionHistory_resume(pc, val, v, p) ==
    Return([val EXCEPT !.hist = v.hist])

getTransactionHistory_catch(m) == "Failed to fetch transaction history: " \o m

-----------------------------------------------------------------------------
(* lib/token.js *)

createNewToken_enter(p) ==
    IF ~p.present THEN Throw("Provider is undefined")
    ELSE IF ~p.isConnected THEN Throw("Wallet not connected")
    ELSE IF p.publicKey = Null THEN Throw("Public key is undefined")
    ELSE IF ~p.canSign THEN Throw("Provider cannot sign transactions")
    ELSE Await("createMint", [NoVal EXCEPT !.pk = p.publicKey])

createNewToken_resume(pc, val, v, p) ==
    IF pc = "createMint"
    THEN Await("createAta", [val EXCEPT !.mint = v.mint])
    ELSE Return([val EXCEPT !.acct = v.acct])

\* console.error(...); throw error
createNewToken_catch(m) == m

mintTokens_enter(p, mintArg, tokenAccountArg) ==
    IF ~p.present THEN Throw(NullDerefMsg("isConnected"))
    ELSE IF ~p.isConnected THEN Throw("Wallet not connected")
    ELSE IF p.publicKey = Null THEN Throw("Public key is undefined")
    ELSE IF tokenAccountArg = Null THEN Throw(NullDerefMsg("address"))
    ELSE Await("mintTo", [NoVal EXCEPT !.mint = mintArg, !.acct = tokenAccountArg])

mintTokens_resume(pc, val, v, p) ==
    Return([val EXCEPT !.sig = v.sig])

mintTokens_catch(m) == "Minting failed: " \o m

\* sendTokens that hands the destination to the blockchain client as it is
sendTokens_enter_unchecked(p, mintArg, sourceTokenAccount, destinationAddress) ==
    IF ~p.present THEN Throw(NullDerefMsg("isConnected"))
    ELSE IF ~p.isConnected THEN Throw("Wallet not connected")
    ELSE IF p.publicKey = Null THEN Throw("Public key is undefined")
    ELSE Await("destAta", [NoVal EXCEPT !.mint = mintArg, !.acct = sourceTokenAccount])

sendTokens_enter(p, mintArg, sourceTokenAccount, destinationAddress) ==
    IF ~p.present THEN Throw(NullDerefMsg("isConnected"))
    ELSE IF ~p.isConnected THEN Throw("Wallet not connected")
    ELSE IF p.publicKey = Null THEN Throw("Public key is undefined")
    ELSE IF ~IsPublicKeyInput(destinationAddress) THEN Throw(InvalidKeyMsg)
    ELSE Await("destAta", [NoVal EXCEPT !.mint = mintArg, !.acct = sourceTokenAccount])

sendTokens_resume(pc, val, v, p) ==
    IF pc = "destAta"
    THEN IF val.acct = Null
         THEN Throw(NullDerefMsg("address"))
         ELSE Await("transfer", val)
    ELSE Return([val EXCEPT !.sig = v.sig])

sendTokens_catch(m) == "Transfer failed: " \o m

getTokenBalance_enter(tokenAccountArg) ==
    IF tokenAccountArg = Null THEN Throw(NullDerefMsg("address"))
    ELSE Await("tokenBalance", NoVal)

getTokenBalance_resume(pc, val, v, p) ==
    Return([val EXCEPT !.amount = v.amount])

getTokenBalance_catch(m) == "Failed to fetch token balance: " \o m

-----------------------------------------------------------------------------
(* Dispatch over the gateway functions *)

Gateways == {"connectWallet", "disconnectWallet", "getTransactionHistory",
             "createNewToken", "mintTokens", "sendTokens", "getTokenBalance"}

\* the rest of gateway function g after its awaited call at pc resolved with v
GatewayResume(g, pc, val, v, p) ==
    CASE g = "connectWallet" -> connectWallet_resume(pc, val, v, p)
      [] g = "disconnectWallet" -> disconnectWallet_resume(pc, val, v, p)
      [] g = "getTransactionHistory" -> getTransactionHistory_resume(pc, val, v, p)
      [] g = "createNewToken" -> createNewToken_resume(pc, val, v, p)
      [] g = "mintTokens" -> mintTokens_resume(pc, val, v, p)
      [] g = "sendTokens" -> sendTokens_resume(pc, val, v, p)
      [] g = "getTokenBalance" -> getTokenBalance_resume(pc, val, v, p)

\* the catch block of gateway function g, given the message of the error caught
GatewayCatch(g, m) ==
    CASE g = "connectWallet" -> connectWallet_catch(m)
      [] g = "disconnectWallet" -> disconnectWallet_catch(m)
      [] g = "getTransactionHistory" -> getTransactionHistory_catch(m)
      [] g = "createNewToken" -> createNewToken_catch(m)
      [] g = "mintTokens" -> mintTokens_catch(m)
      [] g = "sendTokens" -> sendTokens_catch(m)
      [] g = "getTokenBalance" -> getTokenBalance_catch(m)

-----------------------------------------------------------------------------
(* WalletComponent: the session state and the handlers' own code *)

Session == [walletInfo |-> walletInfo, mint |-> mint, tokenAccount |-> tokenAccount,
            publicKey |-> publicKey, solBalance |-> solBalance,
            recipientAddress |-> recipientAddress,
            transactionHistory |-> transactionHistory]

ApplySession(S) ==
    /\ walletInfo' = S.walletInfo
    /\ mint' = S.mint
    /\ tokenAccount' = S.tokenAccount
    /\ publicKey' = S.publicKey
    /\ solBalance' = S.solBalance
    /\ recipientAddress' = S.recipientAddress
    /\ transactionHistory' = S.transactionHistory

\* handleConnect up to its await: setPublicKey(pubKey)
handleConnect_enter(S, pubKey) == [S EXCEPT !.publicKey = pubKey]

\* handleConnect after its await: setSolBalance(balance / 1e9); setWalletInfo(...)
handleConnect_resume(S, pubKey, balance) ==
    [S EXCEPT !.solBalance = LamportsToSol(balance),
              !.walletInfo = AddressDisplay(pubKey)]

\* the provider's 'disconnect' listener
handleDisconnect(S) ==
    [S EXCEPT !.publicKey = Null, !.solBalance = ZeroSol,
              !.walletInfo = "Not connected"]

Handlers == {"connect", "disconnect", "createToken", "mint", "send",
             "checkBalance", "history"}

NotConnectedMsg == "Please connect your wallet first"
InsufficientMsg == "Insufficient SOL. You need at least 0.002 SOL."

\* the handlers' checks before their gateway call: the message thrown, "" if none
handleConnectWallet_pre(S, ref) ==
    IF ~ProviderAt(ref).present THEN "No Phantom wallet detected" ELSE ""

handleDisconnectWallet_pre(S, ref) ==
    IF ~ProviderAt(ref).present THEN "No wallet to disconnect" ELSE ""

\* handleCreateToken without its balance check
handleCreateToken_pre_noBalanceCheck(S, ref) ==
    IF ~ProviderAt(ref).present \/ S.publicKey = Null THEN NotConnectedMsg
    ELSE ""

handleCreateToken_pre(S, ref) ==
    IF ~ProviderAt(ref).present \/ S.publicKey = Null THEN NotConnectedMsg
    ELSE IF RatLess(S.solBalance, MinSol) THEN InsufficientMsg
    ELSE ""

handleMintTokens_pre(S, ref) ==
    IF ~ProviderAt(ref).present \/ S.publicKey = Null THEN NotConnectedMsg
    ELSE IF S.mint = Null \/ S.tokenAccount = Null THEN "Create a token first"
    ELSE ""

handleSendTokens_pre(S, ref) ==
    IF ~ProviderAt(ref).present \/ S.publicKey = Null THEN NotConnectedMsg
    ELSE IF S.mint = Null \/ S.tokenAccount = Null THEN "Create and mint tokens first"
    ELSE ""

handleCheckBalance_pre(S, ref) ==
    IF ~ProviderAt(ref).present \/ S.publicKey = Null THEN NotConnectedMsg
    ELSE IF S.tokenAccount = Null THEN "Create a token first"
    ELSE ""

handleTransactionHistory_pre(S, ref) ==
    IF ~ProviderAt(ref).present \/ S.publicKey = Null THEN NotConnectedMsg ELSE ""

HandlerPre(h, S, ref) ==
    CASE h = "connect" -> handleConnectWallet_pre(S, ref)
      [] h = "disconnect" -> handleDisconnectWallet_pre(S, ref)
      [] h = "createToken" -> handleCreateToken_pre(S, ref)
      [] h = "mint" -> handleMintTokens_pre(S, ref)
      [] h = "send" -> handleSendTokens_pre(S, ref)
      [] h = "checkBalance" -> handleCheckBalance_pre(S, ref)
      [] h = "history" -> handleTransactionHistory_pre(S, ref)

\* the gateway function each handler calls
HandlerGateway(h) ==
    CASE h = "connect" -> "connectWallet"
      [] h = "disconnect" -> "disconnectWallet"
      [] h = "createToken" -> "createNewToken"
      [] h = "mint" -> "mintTokens"
      [] h = "send" -> "sendTokens"
      [] h = "checkBalance" -> "getTokenBalance"
      [] h = "history" -> "getTransactionHistory"

\* a gateway function entered with these arguments, up to its first await
GatewayEnter(g, ref, mintArg, acctArg, destArg) ==
    CASE g = "connectWallet" -> connectWallet_enter(ProviderAt(ref))
      [] g = "disconnectWallet" -> disconnectWallet_enter(ProviderAt(ref))
      [] g = "getTransactionHistory" -> getTransactionHistory_enter(ProviderAt(ref).publicKey)
      [] g = "createNewToken" -> createNewToken_enter(ProviderAt(ref))
      [] g = "mintTokens" -> mintTokens_enter(ProviderAt(ref), mintArg, acctArg)
      [] g = "sendTokens" -> sendTokens_enter(ProviderAt(ref), mintArg, acctArg, destArg)
      [] g = "getTokenBalance" -> getTokenBalance_enter(acctArg)

\* the handlers' code after their gateway call returned val: the new session state
\* and the string the handler returns
handleConnectWallet_then(S, val) ==
    [S |-> [S EXCEPT !.publicKey = val.pk, !.solBalance = val.sol,
                     !.walletInfo = AddressDisplay(val.pk)],
     result |-> "Wallet connected successfully"]

\* handleDisconnectWallet that resets what the 'disconnect' listener resets
handleDisconnectWallet_then_keepsHandle(S, val) ==
    [S |-> [S EXCEPT !.publicKey = Null, !.solBalance = ZeroSol,
                     !.walletInfo = "Not connected"],
     result |-> "Wallet disconnected successfully"]

\* handleDisconnectWallet without setTokenAccount(null)
handleDisconnectWallet_then_keepsAccount(S, val) ==
    [S |-> [S EXCEPT !.publicKey = Null, !.solBalance = ZeroSol, !.mint = Null,
                     !.walletInfo = "Not connected"],
     result |-> "Wallet disconnected successfully"]

handleDisconnectWallet_then(S, val) ==
    [S |-> [S EXCEPT !.publicKey = Null, !.solBalance = ZeroSol, !.mint = Null,
                     !.tokenAccount = Null, !.walletInfo = "Not connected"],
     result |-> "Wallet disconnected successfully"]

handleCreateToken_then(S, val) ==
    [S |-> [S EXCEPT !.mint = val.mint, !.tokenAccount = val.acct],
     result |-> "Token created: " \o SliceHead(val.mint, 12) \o "..."]

handleMintTokens_then(S, val) ==
    [S |-> S,
     result |-> "Minted 100 tokens. Tx: " \o SliceHead(val.sig, 12) \o "..."]

handleSendTokens_then(S, val) ==
    [S |-> [S EXCEPT !.recipientAddress = ""],
     result |-> "Sent 50 tokens. Tx: " \o SliceHead(val.sig, 12) \o "..."]

handleCheckBalance_then(S, val) ==
    [S |-> S, result |-> "Token Balance: " \o ToString(val.amount)]

handleTransactionHistory_then(S, val) ==
    [S |-> [S EXCEPT !.transactionHistory = val.hist],
     result |-> "Transaction history updated"]

HandlerThen(h, S, val) ==
    CASE h = "connect" -> handleConnectWallet_then(S, val)
      [] h = "disconnect" -> handleDisconnectWallet_then(S, val)
      [] h = "createToken" -> handleCreateToken_then(S, val)
      [] h = "mint" -> handleMintTokens_then(S, val)
      [] h = "send" -> handleSendTokens_then(S, val)
      [] h = "checkBalance" -> handleCheckBalance_then(S, val)
      [] h = "history" -> handleTransactionHistory_then(S, val)

\* the buttons: disabled={...} and the branch of the markup that renders them
ConnectEnabled == provider /\ publicKey = Null /\ ~isLoading
DisconnectEnabled == provider /\ publicKey # Null /\ ~isLoading
SendEnabled == provider /\ ~(publicKey = Null \/ recipientAddress = "" \/ isLoading)
CreateTokenEnabled == provider /\ ~(publicKey = Null \/ isLoading)
MintEnabled == provider /\ ~(publicKey = Null \/ mint = Null \/ isLoading)
\* the Check Balance button with disabled={!publicKey}
CheckBalanceEnabled_whileLoading == provider /\ ~(publicKey = Null)
CheckBalanceEnabled == provider /\ ~(publicKey = Null \/ isLoading)
TransactionsEnabled == provider /\ ~(publicKey = Null \/ isLoading)

ButtonEnabled(h) ==
    CASE h = "connect" -> ConnectEnabled
      [] h = "disconnect" -> DisconnectEnabled
      [] h = "createToken" -> CreateTokenEnabled
      [] h = "mint" -> MintEnabled
      [] h = "send" -> SendEnabled
      [] h = "checkBalance" -> CheckBalanceEnabled
      [] h = "history" -> TransactionsEnabled

-----------------------------------------------------------------------------
(* executeWithLoading *)

\* try: setStatus(successMessage || result); no caller passes a successMessage
executeWithLoading_try(result) == [status |-> result]

\* catch: setStatus(`Error: ${error.message}`); setDialogError(error.message); throw
\* the catch block without setDialogError
executeWithLoading_catch_statusOnly(message) ==
    [status |-> "Error: " \o message, dialogError |-> dialogError]

executeWithLoading_catch(message) ==
    [status |-> "Error: " \o message, dialogError |-> message]

\* executeWithLoading with setIsLoading(false) at the end of try, not in finally
ExecEnd_busyOnFailure(fresh, ok, msg) ==
    /\ status' = IF ok THEN executeWithLoading_try(msg).status
                 ELSE executeWithLoading_catch(msg).status
    /\ dialogError' = IF ok THEN (IF fresh THEN "" ELSE dialogError)
                      ELSE executeWithLoading_catch(msg).dialogError
    /\ isLoading' = ~ok
    /\ timers' = Append(timers, TimerDelay)
    /\ statusAge' = 0

\* executeWithLoading whose finally clears the pending timer before it sets its own
ExecEnd_cancelsPending(fresh, ok, msg) ==
    /\ status' = IF ok THEN executeWithLoading_try(msg).status
                 ELSE executeWithLoading_catch(msg).status
    /\ dialogError' = IF ok THEN (IF fresh THEN "" ELSE dialogError)
                      ELSE executeWithLoading_catch(msg).dialogError
    /\ isLoading' = FALSE
    /\ timers' = <<TimerDelay>>
    /\ statusAge' = 0

\* executeWithLoading from the end of fn to its own end.  fresh: fn never awaited a
\* collaborator, so setIsLoading(true); setDialogError('') belong to this same step.
ExecEnd(fresh, ok, msg) ==
    /\ status' = IF ok THEN executeWithLoading_try(msg).status
                 ELSE executeWithLoading_catch(msg).status
    /\ dialogError' = IF ok THEN (IF fresh THEN "" ELSE dialogError)
                      ELSE executeWithLoading_catch(msg).dialogError
    /\ isLoading' = FALSE
    /\ timers' = Append(timers, TimerDelay)
    /\ statusAge' = 0

-----------------------------------------------------------------------------
(* Calls in flight and observations *)

\* What the step just taken showed.  type: "handler" (an executeWithLoading call
\* ended), "gateway" (a direct gateway call ended), "providerDisconnect" (the
\* 'disconnect' listener ran for a disconnect the wallet started), "timer" (a status
\* timer fired), "init", or "step" (anything else).  For an ended call: ok and msg
\* are what its caller got; threw, gmsg and cause are whether the gateway function
\* threw, the message it threw and the message of the error its catch block
\* caught; rejected is whether that error was a collaborator's rejection; calls
\* counts the calls made to the blockchain client; got lists the collaborators'
\* answers; sol0, conn0, live0, handle0, dest0 are the balance, whether the session
\* and the provider were connected, whether a token handle was passed, and the
\* destination, all as of the invocation; S0 is the session state as of the
\* invocation.
\* the session state of a page just loaded
NoSession == [walletInfo |-> "Not connected", mint |-> Null, tokenAccount |-> Null,
              publicKey |-> Null, solBalance |-> ZeroSol, recipientAddress |-> "",
              transactionHistory |-> <<>>]

NoObs == [type |-> "step", h |-> "none", g |-> "none", ok |-> TRUE, msg |-> "",
          threw |-> FALSE, gmsg |-> "", cause |-> "", rejected |-> FALSE,
          calls |-> 0, val |-> NoVal, got |-> <<>>,
          sol0 |-> ZeroSol, conn0 |-> FALSE, live0 |-> FALSE, handle0 |-> FALSE,
          dest0 |-> "", age |-> 0, cleared |-> FALSE, S0 |-> NoSession]

NewOp(h, g, ref, mintArg, acctArg, destArg) ==
    [h |-> h, g |-> g, pc |-> "", calls |-> 0, val |-> NoVal, ref |-> ref,
     got |-> <<>>,
     sol0 |-> solBalance, conn0 |-> ProviderAt(ref).present /\ publicKey # Null,
     live0 |-> ProviderAt(ref).isConnected /\ ProviderAt(ref).publicKey # Null,
     handle0 |-> mintArg # Null /\ acctArg # Null, dest0 |-> destArg,
     S0 |-> Session]

ObsOf(type, op) ==
    [NoObs EXCEPT !.type = type, !.h = op.h, !.g = op.g, !.calls = op.calls,
                  !.got = op.got, !.sol0 = op.sol0, !.conn0 = op.conn0,
                  !.live0 = op.live0, !.handle0 = op.handle0, !.dest0 = op.dest0,
                  !.S0 = op.S0]

RemoveAt(q, i) == SubSeq(q, 1, i - 1) \o SubSeq(q, i + 1, Len(q))

\* executeWithLoading calls that have not ended
Running == {i \in 1..Len(ops) : ops[i].h # "none"}

\* A call moves on by one step st of its gateway function, from session state S0.
\* fresh: the call starts in this step; otherwise it is ops[i].  rejected: st is the
\* catch of a collaborator's rejection.
Advance(fresh, i, op, st, S0, rejected) ==
    IF st.t = "await"
    THEN LET op2 == [op EXCEPT !.pc = st.pc, !.val = st.val,
                               !.calls = @ + (IF st.pc \in ClientCalls THEN 1 ELSE 0)]
         IN /\ ops' = IF fresh THEN Append(ops, op2) ELSE [ops EXCEPT ![i] = op2]
            /\ ApplySession(S0)
            /\ IF fresh /\ op.h # "none"
               THEN isLoading' = TRUE /\ dialogError' = ""
               ELSE UNCHANGED <<isLoading, dialogError>>
            /\ UNCHANGED <<status, timers, statusAge>>
            /\ last' = NoObs
    ELSE LET threw == st.t = "throw"
             gmsg == IF threw THEN GatewayCatch(op.g, st.m) ELSE ""
             seen == [ObsOf("gateway", op) EXCEPT !.ok = ~threw, !.msg = gmsg,
                         !.threw = threw, !.gmsg = gmsg, !.cause = st.m,
                         !.rejected = rejected, !.val = st.val]
         IN /\ ops' = IF fresh THEN ops ELSE RemoveAt(ops, i)
            /\ IF op.h = "none"
               THEN /\ ApplySession(S0)
                    /\ UNCHANGED execVars
                    /\ last' = seen
               ELSE LET r == IF threw THEN [S |-> S0, result |-> ""]
                             ELSE HandlerThen(op.h, S0, st.val)
                    IN /\ ApplySession(r.S)
                       /\ ExecEnd(fresh, ~threw, IF threw THEN gmsg ELSE r.result)
                       /\ last' = [seen EXCEPT !.type = "handler",
                                     !.msg = IF threw THEN gmsg ELSE r.result]

\* A handler's own check fails: fn throws before any gateway call.
PreFail(op, msg) ==
    /\ UNCHANGED ops
    /\ UNCHANGED sessionVars
    /\ ExecEnd(TRUE, FALSE, msg)
    /\ last' = [ObsOf("handler", op) EXCEPT !.ok = FALSE, !.msg = msg]

\* bounds on what may start
RoomForCall == Len(ops) < MaxInFlight
RoomForTimer == Len(timers) + Cardinality(Running) < MaxTimers
RoomForConnect ==
    Len(evReads) + Cardinality({i \in 1..Len(ops) : ops[i].pc = "connect"}) < MaxEvReads

\* handler h is invoked: executeWithLoading(fn) up to fn's first await
Invoke(h) ==
    LET op == NewOp(h, HandlerGateway(h), ProviderRef, mint, tokenAccount,
                    recipientAddress)
        pre == HandlerPre(h, Session, ProviderRef)
    IN /\ RoomForCall /\ RoomForTimer
       /\ h = "connect" => RoomForConnect
       /\ IF pre # ""
          THEN PreFail(op, pre)
          ELSE Advance(TRUE, 0, op,
                       GatewayEnter(op.g, op.ref, mint, tokenAccount, recipientAddress),
                       Session, FALSE)
       /\ UNCHANGED <<provider, wallet, evReads>>

\* the user clicks the button of handler h
Click(h) == ButtonEnabled(h) /\ Invoke(h)

ClickConnect == Click("connect")
ClickDisconnect == Click("disconnect")
ClickCreateToken == Click("createToken")
ClickMintTokens == Click("mint")
ClickSendTokens == Click("send")
ClickCheckBalance == Click("checkBalance")
ClickTransactions == Click("history")

\* onChange of the recipient input, in the dialog the Send trigger opens
SendDialogEnabled == provider /\ ~(isLoading \/ publicKey = Null)

TypeRecipient ==
    \E r \in Recipients :
        /\ SendDialogEnabled /\ r # recipientAddress
        /\ recipientAddress' = r
        /\ last' = NoObs
        /\ UNCHANGED <<walletInfo, status, mint, tokenAccount, provider, publicKey,
                       solBalance, transactionHistory, isLoading, dialogError,
                       wallet, ops, evReads, timers, statusAge>>

-----------------------------------------------------------------------------
(* The collaborators answer *)

\* ops[i] resumes after its awaited call resolved with v; the wallet is then w
Resume(i, v, w, S0) ==
    LET op == [ops[i] EXCEPT !.got = Append(@, v)]
    IN Advance(FALSE, i, op,
               GatewayResume(op.g, op.pc, op.val, v, ProviderIn(op.ref, w)), S0, FALSE)

\* a failure path that also empties the recipient field
Reject_clearsRecipient(i, m) ==
    Advance(FALSE, i, ops[i], Throw(m), [Session EXCEPT !.recipientAddress = ""], TRUE)

\* ops[i] resumes in its gateway's catch block: the awaited call rejected with m
Reject(i, m) == Advance(FALSE, i, ops[i], Throw(m), Session, TRUE)

Awaiting(pc) == {i \in 1..Len(ops) : ops[i].pc = pc}

\* provider.connect() resolves: the wallet is connected and emits 'connect'
ProviderConnectResolves ==
    \E i \in Awaiting("connect"), a \in Accounts :
        LET w == [wallet EXCEPT !.isConnected = TRUE, !.publicKey = a]
        IN /\ wallet' = w
           /\ evReads' = IF provider THEN Append(evReads, a) ELSE evReads
           /\ Resume(i, [NoVal EXCEPT !.pk = a], w,
                     IF provider THEN handleConnect_enter(Session, a) ELSE Session)
           /\ UNCHANGED provider

\* provider.disconnect() resolves: the wallet is disconnected and emits 'disconnect'
ProviderDisconnectResolves ==
    \E i \in Awaiting("disconnect") :
        LET w == [wallet EXCEPT !.isConnected = FALSE, !.publicKey = Null]
        IN /\ wallet' = w
           /\ Resume(i, NoVal, w,
                     IF provider THEN handleDisconnect(Session) ELSE Session)
           /\ UNCHANGED <<provider, evReads>>

\* provider.connect() or provider.disconnect() rejects
ProviderRejects ==
    \E i \in Awaiting("connect") \cup Awaiting("disconnect") :
        /\ Reject(i, ProviderErr)
        /\ UNCHANGED <<provider, wallet, evReads>>

\* a call to the blockchain client resolves with v
ClientResolves(pc, v) ==
    \E i \in Awaiting(pc) :
        /\ Resume(i, v, wallet, Session)
        /\ UNCHANGED <<provider, wallet, evReads>>

GetBalanceResolves ==
    \E l \in Lamports : ClientResolves("getBalance", [NoVal EXCEPT !.amount = l])
CreateMintResolves == ClientResolves("createMint", [NoVal EXCEPT !.mint = MintM])
CreateAtaResolves == ClientResolves("createAta", [NoVal EXCEPT !.acct = AtaT])
MintToResolves == ClientResolves("mintTo", [NoVal EXCEPT !.sig = SigS])
DestAtaResolves == ClientResolves("destAta", [NoVal EXCEPT !.acct = AtaD])
TransferResolves == ClientResolves("transfer", [NoVal EXCEPT !.sig = SigS])
TokenBalanceResolves ==
    \E n \in TokenAmounts : ClientResolves("tokenBalance", [NoVal EXCEPT !.amount = n])

\* the account's ledger with n transactions, newest first (each named by its slot)
Ledger(n) == [k \in 1..n |-> n - k + 1]
\* connection.getSignaturesForAddress(address, { limit }): the newest `limit` entries
getSignaturesForAddress(ledger, limit) ==
    IF Len(ledger) <= limit THEN ledger ELSE SubSeq(ledger, 1, limit)

\* the answer: the size of the ledger in amount, the entries delivered in hist
SignaturesResolves ==
    \E i \in Awaiting("signatures"), n \in LedgerSizes :
        /\ Resume(i, [NoVal EXCEPT !.amount = n,
                         !.hist = getSignaturesForAddress(Ledger(n), ops[i].val.amount)],
                  wallet, Session)
        /\ UNCHANGED <<provider, wallet, evReads>>

\* a call to the blockchain client rejects
ClientRejects ==
    \E i \in 1..Len(ops) :
        /\ ops[i].pc \in ClientCalls
        /\ Reject(i, ClientErr)
        /\ UNCHANGED <<provider, wallet, evReads>>

-----------------------------------------------------------------------------
(* The component's effects and the provider's events *)

\* checkPhantom (on mount and on 'load'), then the effect that depends on provider:
\* it subscribes the listeners and calls handleConnect for a connected provider
CheckPhantom ==
    /\ ~provider /\ wallet.installed
    /\ provider' = TRUE
    /\ IF wallet.isConnected /\ wallet.publicKey # Null
       THEN /\ ApplySession(handleConnect_enter(Session, wallet.publicKey))
            /\ evReads' = Append(evReads, wallet.publicKey)
       ELSE UNCHANGED <<sessionVars, evReads>>
    /\ last' = NoObs
    /\ UNCHANGED <<status, isLoading, dialogError, timers, statusAge, wallet, ops>>

\* handleConnect resumes: its connection.getBalance(pubKey) resolved
EventBalanceResolves ==
    \E k \in 1..Len(evReads), l \in Lamports :
        /\ ApplySession(handleConnect_resume(Session, evReads[k], l))
        /\ evReads' = RemoveAt(evReads, k)
        /\ last' = NoObs
        /\ UNCHANGED <<status, isLoading, dialogError, timers, statusAge, wallet,
                       ops, provider>>

\* handleConnect ends in an unhandled rejection: its getBalance rejected
EventBalanceRejects ==
    \E k \in 1..Len(evReads) :
        /\ evReads' = RemoveAt(evReads, k)
        /\ last' = NoObs
        /\ UNCHANGED <<sessionVars, status, isLoading, dialogError, timers,
                       statusAge, wallet, ops, provider>>

\* the wallet disconnects by itself and emits 'disconnect'
WalletDisconnects ==
    /\ wallet.installed /\ wallet.isConnected
    /\ wallet' = [wallet EXCEPT !.isConnected = FALSE, !.publicKey = Null]
    /\ IF provider
       THEN /\ ApplySession(handleDisconnect(Session))
            /\ last' = [NoObs EXCEPT !.type = "providerDisconnect"]
       ELSE /\ UNCHANGED sessionVars
            /\ last' = NoObs
    /\ UNCHANGED <<status, isLoading, dialogError, timers, statusAge, ops, evReads,
                   provider>>

-----------------------------------------------------------------------------
(* Time *)

\* one second passes; a timer that is due fires first
Tick ==
    /\ timers # <<>>
    /\ \A k \in 1..Len(timers) : timers[k] > 0
    /\ timers' = [k \in 1..Len(timers) |-> timers[k] - 1]
    /\ statusAge' = IF status = "Idle" THEN 0 ELSE statusAge + 1
    /\ last' = NoObs
    /\ UNCHANGED <<sessionVars, status, isLoading, dialogError, provider, wallet,
                   ops, evReads>>

\* () => setStatus('Idle')
TimerFires ==
    /\ timers # <<>> /\ Head(timers) = 0
    /\ timers' = Tail(timers)
    /\ status' = "Idle"
    /\ statusAge' = 0
    /\ last' = [NoObs EXCEPT !.type = "timer", !.age = statusAge,
                             !.cleared = status # "Idle"]
    /\ UNCHANGED <<sessionVars, isLoading, dialogError, provider, wallet, ops,
                   evReads>>

-----------------------------------------------------------------------------
(* The running page *)

\* window.solana when the page loads
WalletStates ==
    {[installed |-> FALSE, isConnected |-> FALSE, publicKey |-> Null],
     [installed |-> TRUE, isConnected |-> FALSE, publicKey |-> Null]}
    \cup {[installed |-> TRUE, isConnected |-> TRUE, publicKey |-> a] : a \in Accounts}

Init ==
    /\ walletInfo = "Not connected"
    /\ status = "Idle"
    /\ mint = Null
    /\ tokenAccount = Null
    /\ provider = FALSE
    /\ publicKey = Null
    /\ solBalance = ZeroSol
    /\ recipientAddress = ""
    /\ transactionHistory = <<>>
    /\ isLoading = FALSE
    /\ dialogError = ""
    /\ wallet \in WalletStates
    /\ ops = <<>>
    /\ evReads = <<>>
    /\ timers = <<>>
    /\ statusAge = 0
    /\ last = [NoObs EXCEPT !.type = "init"]

\* the collaborators answer the calls in flight
Answers ==
    \/ ProviderConnectResolves
    \/ ProviderDisconnectResolves
    \/ ProviderRejects
    \/ GetBalanceResolves
    \/ CreateMintResolves
    \/ CreateAtaResolves
    \/ MintToResolves
    \/ DestAtaResolves
    \/ TransferResolves
    \/ TokenBalanceResolves
    \/ SignaturesResolves
    \/ ClientRejects

Environment ==
    \/ Answers
    \/ CheckPhantom
    \/ EventBalanceResolves
    \/ EventBalanceRejects
    \/ WalletDisconnects
    \/ Tick
    \/ TimerFires

Next ==
    \/ ClickConnect
    \/ ClickDisconnect
    \/ ClickCreateToken
    \/ ClickMintTokens
    \/ ClickSendTokens
    \/ ClickCheckBalance
    \/ ClickTransactions
    \/ TypeRecipient
    \/ Environment

Spec == Init /\ [][Next]_vars

-----------------------------------------------------------------------------
(* The handlers and the gateway functions as an interface: one call, made in any
   state of the session and the wallet and with any arguments, and followed to
   its end *)

CallInit ==
    /\ wallet \in WalletStates
    /\ provider \in {FALSE} \cup (IF wallet.installed THEN {TRUE} ELSE {})
    /\ publicKey \in {Null} \cup (IF provider THEN Accounts ELSE {})
    /\ solBalance \in {ZeroSol}
                      \cup (IF provider THEN {LamportsToSol(l) : l \in Lamports} ELSE {})
    /\ walletInfo = IF publicKey = Null THEN "Not connected"
                    ELSE AddressDisplay(publicKey)
    /\ \E handle \in {<<Null, Null>>} \cup (IF provider THEN {<<MintM, AtaT>>} ELSE {}) :
            mint = handle[1] /\ tokenAccount = handle[2]
    /\ recipientAddress \in {""} \cup (IF provider THEN Destinations ELSE {})
    /\ status = "Idle"
    /\ transactionHistory = <<>>
    /\ isLoading = FALSE
    /\ dialogError = ""
    /\ ops = <<>>
    /\ evReads = <<>>
    /\ timers = <<>>
    /\ statusAge = 0
    /\ last = [NoObs EXCEPT !.type = "init"]

NoCallYet == ops = <<>> /\ last.type = "init"

CallHandler(h) == NoCallYet /\ Invoke(h)

\* gateway function g called directly
CallGateway(g, ref, mintArg, acctArg, destArg) ==
    /\ NoCallYet
    /\ g = "connectWallet" => RoomForConnect
    /\ Advance(TRUE, 0, NewOp("none", g, ref, mintArg, acctArg, destArg),
               GatewayEnter(g, ref, mintArg, acctArg, destArg), Session, FALSE)
    /\ UNCHANGED <<provider, wallet, evReads>>

ProviderArgs == {"wallet", "watchOnly", "none"}
MintArgs == {Null, MintM}
AccountArgs == {Null, AtaT}

CallSendTokens ==
    \E ref \in ProviderArgs, m \in MintArgs, a \in AccountArgs, d \in Destinations :
        CallGateway("sendTokens", ref, m, a, d)
CallMintTokens ==
    \E ref \in ProviderArgs, m \in MintArgs, a \in AccountArgs :
        CallGateway("mintTokens", ref, m, a, "")
CallCreateNewToken ==
    \E ref \in ProviderArgs : CallGateway("createNewToken", ref, Null, Null, "")
CallGetTokenBalance ==
    \E a \in AccountArgs : CallGateway("getTokenBalance", "none", Null, a, "")
CallGetTransactionHistory ==
    \E ref \in ProviderArgs : CallGateway("getTransactionHistory", ref, Null, Null, "")
CallConnectWallet ==
    \E ref \in {"wallet", "none"} : CallGateway("connectWallet", ref, Null, Null, "")
CallDisconnectWallet ==
    \E ref \in {"wallet", "none"} : CallGateway("disconnectWallet", ref, Null, Null, "")

CallHandleConnectWallet == CallHandler("connect")
CallHandleDisconnectWallet == CallHandler("disconnect")
CallHandleCreateToken == CallHandler("createToken")
CallHandleMintTokens == CallHandler("mint")
CallHandleSendTokens == CallHandler("send")
CallHandleCheckBalance == CallHandler("checkBalance")
CallHandleTransactionHistory == CallHandler("history")

NextCall ==
    \/ CallSendTokens
    \/ CallMintTokens
    \/ CallCreateNewToken
    \/ CallGetTokenBalance
    \/ CallGetTransactionHistory
    \/ CallConnectWallet
    \/ CallDisconnectWallet
    \/ CallHandleConnectWallet
    \/ CallHandleDisconnectWallet
    \/ CallHandleCreateToken
    \/ CallHandleMintTokens
    \/ CallHandleSendTokens
    \/ CallHandleCheckBalance
    \/ CallHandleTransactionHistory
    \/ Answers
    \/ EventBalanceResolves
    \/ EventBalanceRejects

CallSpec == CallInit /\ [][NextCall]_vars

-----------------------------------------------------------------------------
(* Properties *)

Ended == last.type \in {"handler", "gateway"}
HandlerEnded(h) == last.type = "handler" /\ last.h = h

\* C1: after the 'disconnect' listener has handled a disconnect the wallet started,
\* the session is disconnected (publicKey null, balance 0) and no token handle is
\* held (mint and tokenAccount null), whatever came before.
C1_ProviderDisconnectClearsAll ==
    last.type = "providerDisconnect" =>
        /\ publicKey = Null
        /\ solBalance = ZeroSol
        /\ mint = Null
        /\ tokenAccount = Null

\* C2: when a disconnect the user asked for ends with success, the session is
\* disconnected, the balance is 0, the address display reads 'Not connected', and
\* mint and tokenAccount are both null.
C2_UserDisconnectResets ==
    (HandlerEnded("disconnect") /\ last.ok) =>
        /\ publicKey = Null
        /\ solBalance = ZeroSol
        /\ walletInfo = "Not connected"
        /\ mint = Null
        /\ tokenAccount = Null

\* a user's disconnect went through provider.disconnect() and cleared a held handle
C2_Witness ==
    /\ HandlerEnded("disconnect") /\ last.ok
    /\ last.val.text = "Wallet disconnected"
    /\ last.handle0
    /\ mint = Null /\ tokenAccount = Null

\* C3: when a connect ends with success, the session is connected, its account is
\* the one the provider connected, and its balance is the lamports the blockchain
\* client answered for that call divided by 1e9.
C3_ConnectReflectsAnswers ==
    (HandlerEnded("connect") /\ last.ok) =>
        /\ Len(last.got) = 2
        /\ publicKey # Null
        /\ publicKey = last.got[1].pk
        /\ solBalance.num * LAMPORTS_PER_SOL = last.got[2].amount * solBalance.den
        /\ walletInfo = AddressDisplay(last.got[1].pk)

\* a connect ended with success and a balance that allows creating a token
C3_Witness ==
    /\ HandlerEnded("connect") /\ last.ok
    /\ ~RatLess(solBalance, MinSol)
    /\ publicKey \in Accounts

\* the calls in flight that ask to create a token / to mint or send tokens
CreateCalls == {i \in 1..Len(ops) : ops[i].h = "createToken"}
TokenCalls == {i \in 1..Len(ops) : ops[i].g \in {"mintTokens", "sendTokens"}}

\* C4: createToken invoked with a balance below 0.002 fails with the insufficient
\* funds error and makes no call to the blockchain client, whether the provider is
\* absent, disconnected or connected.
C4_InsufficientFundsAlways ==
    /\ (HandlerEnded("createToken") /\ RatLess(last.sol0, MinSol)) =>
            (~last.ok /\ last.msg = InsufficientMsg /\ last.calls = 0)
    /\ \A i \in CreateCalls : RatLess(ops[i].sol0, MinSol) => ops[i].calls = 0

\* C4 as amended: createToken invoked with a balance below 0.002 makes no call to
\* the blockchain client and fails, with the insufficient funds error when the
\* session is connected (provider present, publicKey set) and with the
\* connect-your-wallet error when it is not.
C4_LowBalanceFailsLocally ==
    /\ (HandlerEnded("createToken") /\ RatLess(last.sol0, MinSol)) =>
            /\ ~last.ok
            /\ last.calls = 0
            /\ last.msg = IF last.conn0 THEN InsufficientMsg ELSE NotConnectedMsg
    /\ \A i \in CreateCalls : RatLess(ops[i].sol0, MinSol) => ops[i].calls = 0

\* createToken refused for its balance while the wallet itself is disconnected
C4_Witness ==
    /\ HandlerEnded("createToken") /\ RatLess(last.sol0, MinSol)
    /\ last.conn0 /\ ~wallet.isConnected
    /\ last.msg = InsufficientMsg /\ last.calls = 0

NoTokenHandleMsgs == {"Create a token first", "Create and mint tokens first"}

\* C5: mintTokens or sendTokens invoked while no token handle is held (mint or token
\* account null) fails with the no-token-handle error and makes no call to the
\* blockchain client, in the handlers and in the gateway functions alike.  Stated
\* for the invocations whose other preconditions hold: provider and session
\* connected, destination well formed.
C5_NoTokenHandleNoCall ==
    /\ \A i \in TokenCalls :
            (~ops[i].handle0 /\ ops[i].live0) => ops[i].calls = 0
    /\ (/\ Ended /\ last.g \in {"mintTokens", "sendTokens"}
        /\ ~last.handle0 /\ last.live0
        /\ last.h # "none" => last.conn0
        /\ last.g = "sendTokens" => IsPublicKeyInput(last.dest0))
       => (~last.ok /\ last.calls = 0 /\ last.msg \in NoTokenHandleMsgs)

\* C6: whenever the status leaves a success or failure message for Idle, it has
\* shown that message for exactly 3 seconds, also when the operation ended while an
\* earlier operation's timer was pending; and no message is shown for longer.
C6_IdleAfterExactlyThreeSeconds ==
    /\ (last.type = "timer" /\ last.cleared) => last.age = TimerDelay
    /\ status # "Idle" => statusAge <= TimerDelay

\* C7: at most one executeWithLoading call is running at any time.
C7_SingleFlight == Cardinality(Running) <= 1

\* an operation is running after an earlier one ended, and every button is disabled
C7_Witness ==
    /\ Cardinality(Running) = 1
    /\ timers # <<>>
    /\ \A h \in Handlers : ~ButtonEnabled(h)

\* C8: when an orchestrated action fails, at the moment its caller gets the
\* rejection the status is 'Error: ' followed by the error's message and the dialog
\* error is that message.
C8_ReportBeforeRethrow ==
    (last.type = "handler" /\ ~last.ok) =>
        /\ status = "Error: " \o last.msg
        /\ dialogError = last.msg

\* an action failed in its gateway call after a collaborator had rejected
C8_Witness ==
    /\ last.type = "handler" /\ ~last.ok /\ last.rejected
    /\ dialogError = last.msg /\ dialogError # ""

\* the message sendTokens throws for a malformed destination
InvalidAddressMsg == "Transfer failed: " \o InvalidKeyMsg

\* C9: sendTokens with a malformed destination address, the provider and session
\* being connected and a token handle held, fails with the invalid address error
\* before any call to the blockchain client.
C9_MalformedDestinationFailsLocally ==
    /\ \A i \in TokenCalls :
            (ops[i].g = "sendTokens" /\ ~IsPublicKeyInput(ops[i].dest0)) =>
                ops[i].calls = 0
    /\ (/\ Ended /\ last.g = "sendTokens"
        /\ ~IsPublicKeyInput(last.dest0)
        /\ last.live0 /\ last.handle0
        /\ last.h # "none" => last.conn0)
       => (~last.ok /\ last.calls = 0 /\ last.msg = InvalidAddressMsg)

\* the Send handler was refused for a destination that is no address
C9_Witness ==
    /\ HandlerEnded("send") /\ last.dest0 = BadDest
    /\ last.live0 /\ last.handle0 /\ last.conn0
    /\ last.msg = InvalidAddressMsg /\ last.calls = 0

\* message is a non-empty prefix followed by cause
HasContextPrefix(message, cause) ==
    /\ Len(message) > Len(cause)
    /\ SliceTail(message, Len(cause)) = cause

\* C10: every gateway function turns a failure of a collaborator into an error
\* whose message is a prefix naming the operation followed by the collaborator's
\* message; none passes the failure on without a prefix and none swallows it.
C10_FailuresArePrefixed ==
    (Ended /\ last.g # "none" /\ last.rejected) =>
        /\ last.threw
        /\ ~last.ok
        /\ HasContextPrefix(last.gmsg, last.cause)

\* C11: when an orchestrated operation ends with a failure the busy flag is false
\* again, and the busy flag is set only while an operation is running: no failure
\* leaves it set.
C11_FailureReleasesBusy ==
    /\ (last.type = "handler" /\ ~last.ok) => ~isLoading
    /\ isLoading => Running # {}

\* an operation failed on a collaborator's rejection and a button is enabled again
C11_Witness ==
    /\ last.type = "handler" /\ ~last.ok /\ last.rejected
    /\ ~isLoading
    /\ \E h \in Handlers : ButtonEnabled(h)

\* C13: a pending status timer is never cancelled.  The step in which an operation
\* ends adds exactly one timer of 3 seconds and keeps the pending ones; a timer goes
\* only by firing, one at a time, and its firing sets the status to Idle; every
\* other step keeps the pending timers.
C13_TimersNeverCancelled ==
    [][/\ last'.type = "handler" => timers' = Append(timers, TimerDelay)
       /\ last'.type = "timer" =>
            (timers # <<>> /\ timers' = Tail(timers) /\ status' = "Idle")
       /\ last'.type \notin {"handler", "timer"} => Len(timers') = Len(timers)]_vars

\* the timer of an earlier operation fired while the status of a later one, set
\* less than 3 seconds before, was showing, and the later one's timer is pending
C13_Witness ==
    /\ last.type = "timer" /\ last.cleared
    /\ last.age < TimerDelay
    /\ timers # <<>>
    /\ status = "Idle"

\* C12: when the blockchain client answers getTransactionHistory, the call succeeds
\* and returns at most 5 records, which are the newest entries of the account's
\* ledger in the newest-first order the client delivered; for an account with no
\* transactions it returns the empty sequence.  The history handler stores what
\* the call returned.
C12_HistoryNewestFive ==
    (Ended /\ last.g = "getTransactionHistory" /\ Len(last.got) = 1) =>
        LET n == last.got[1].amount
            hist == last.val.hist
        IN /\ last.ok
           /\ Len(hist) <= 5
           /\ Len(hist) = IF n < 5 THEN n ELSE 5
           /\ hist = last.got[1].hist
           /\ \A k \in 1..Len(hist) : hist[k] = Ledger(n)[k]
           /\ \A k \in 1..(Len(hist) - 1) : hist[k] > hist[k + 1]
           /\ n = 0 => hist = <<>>
           /\ last.h = "history" => transactionHistory = hist

\* the history handler stored 5 records of a ledger that holds more
C12_Witness ==
    /\ HandlerEnded("history") /\ last.ok
    /\ Len(last.got) = 1 /\ last.got[1].amount > 5
    /\ Len(transactionHistory) = 5

\* C14: in every reachable state in which the session is disconnected (publicKey
\* null) the balance is 0 and the address display reads 'Not connected'.
C14_DisconnectedShowsNothing ==
    publicKey = Null => (solBalance = ZeroSol /\ walletInfo = "Not connected")

\* C15: whenever the page holds the provider and neither an operation nor a
\* 'connect' listener is in progress, the session is connected (publicKey set)
\* exactly if the provider is connected.
C15_SessionMatchesProvider ==
    (provider /\ ops = <<>> /\ evReads = <<>>) =>
        (publicKey # Null <=> wallet.isConnected)

\* C17: in every reachable state mint is null exactly if tokenAccount is null.
C17_HandleHalvesAgree == (mint = Null) <=> (tokenAccount = Null)

\* a token was created: both halves of the handle are held
C17_Witness ==
    /\ HandlerEnded("createToken") /\ last.ok
    /\ mint = MintM /\ tokenAccount = AtaT

\* an orchestrated action ended with a failure
Failed == last.type = "handler" /\ ~last.ok

\* C16: when an orchestrated action fails, publicKey, solBalance, mint,
\* tokenAccount, recipientAddress and transactionHistory are as they were when it
\* was invoked.
C16_FailureChangesNoSessionState ==
    Failed =>
        /\ publicKey = last.S0.publicKey
        /\ solBalance = last.S0.solBalance
        /\ mint = last.S0.mint
        /\ tokenAccount = last.S0.tokenAccount
        /\ recipientAddress = last.S0.recipientAddress
        /\ transactionHistory = last.S0.transactionHistory

\* this call's provider.connect() resolved, so the 'connect' listener ran
ConnectListenerRan == last.h = "connect" /\ Len(last.got) >= 1

\* C16 as amended: when an orchestrated action fails, mint, tokenAccount,
\* recipientAddress and transactionHistory are as they were when it was invoked,
\* and so are publicKey and solBalance unless the action is a connect whose
\* provider.connect() had resolved: then the 'connect' listener has set publicKey
\* to the connected account, and solBalance if its own balance read has resolved.
C16_FailureWritesOnlyThroughListener ==
    Failed =>
        /\ mint = last.S0.mint
        /\ tokenAccount = last.S0.tokenAccount
        /\ recipientAddress = last.S0.recipientAddress
        /\ transactionHistory = last.S0.transactionHistory
        /\ ~ConnectListenerRan =>
                (publicKey = last.S0.publicKey /\ solBalance = last.S0.solBalance)
        /\ ConnectListenerRan =>
                /\ publicKey = last.got[1].pk
                /\ solBalance # last.S0.solBalance =>
                        (evReads = <<>> /\ walletInfo = AddressDisplay(publicKey))

\* a connect failed at its balance read after the listener had connected the
\* session, with a token handle held
C16_Witness ==
    /\ Failed /\ last.h = "connect" /\ last.rejected
    /\ last.S0.publicKey = Null /\ publicKey \in Accounts
    /\ mint = MintM /\ tokenAccount = AtaT

====
